---- MODULE Spec2Model ----
(***************************************************************************)
(* State-machine model of app.py, the Streamlit "CRO Revenue Command      *)
(* Center".  The script is rerun from top to bottom after every widget    *)
(* change; load_data() is cached, so every run works on the same loaded   *)
(* frame.  One action of Spec is one widget change followed by the full   *)
(* rerun of the script.  The pure computations of the script (diagnosis,  *)
(* simulation, funnel, ramp) are also exercised on wider input ranges by  *)
(* the specifications SpecDiag, SpecSim, SpecFunnel and SpecRamp.         *)
(*                                                                         *)
(* Numbers.  pandas/Python floats are modelled as exact rationals n/d in  *)
(* lowest terms, extended with NaN, +inf and -inf (d = 0).  The one place *)
(* where binary rounding changes an integer result, int(base * rate) of   *)
(* the funnel, is modelled bit-exactly (IEEE-754 binary64, round to        *)
(* nearest even).  The column WAPP is coerced by load_data but read by no *)
(* later line, and is left out of the rows.                                *)
(***************************************************************************)
EXTENDS Integers, Sequences, FiniteSets, TLC

\* ------------------------------------------------------------------------
\* Bounds of the model
\* ------------------------------------------------------------------------
\* rows of the input file (Spec)
MaxRows == 2
\* industries of a diagnosed batch (SpecDiag)
MaxBatch == 2
\* quarter_goal, current_headcount, pipeline_count and |demand totals| (SpecSim)
MaxGoal == 3
MaxHeadcount == 3
MaxPipelineCount == 3
MaxDemand == 2
\* pipeline_count of the funnel (SpecFunnel)
MaxFunnelPipeline == 60

\* ------------------------------------------------------------------------
\* Float arithmetic (exact rationals with NaN and the infinities)
\* ------------------------------------------------------------------------
Abs(x) == IF x < 0 THEN -x ELSE x

RECURSIVE GCD(_, _)
GCD(a, b) == IF b = 0 THEN a ELSE GCD(b, a % b)

NaN == [n |-> 0, d |-> 0]
Inf == [n |-> 1, d |-> 0]
NInf == [n |-> -1, d |-> 0]

\* n/d with d # 0, in lowest terms with a positive denominator
Rat(n, d) ==
    LET s == IF d < 0 THEN -1 ELSE 1
        g == GCD(Abs(n), Abs(d))
    IN  [n |-> (s * n) \div g, d |-> (s * d) \div g]

FromInt(i) == [n |-> i, d |-> 1]
IsNaN(x) == x.d = 0 /\ x.n = 0
IsFinite(x) == x.d # 0
Sign(i) == IF i < 0 THEN -1 ELSE IF i > 0 THEN 1 ELSE 0

FNeg(a) == [n |-> -a.n, d |-> a.d]
FAbs(a) == [n |-> Abs(a.n), d |-> a.d]

FMul(a, b) ==
    IF IsNaN(a) \/ IsNaN(b) THEN NaN
    ELSE IF ~IsFinite(a) \/ ~IsFinite(b)
         THEN (IF a.n = 0 \/ b.n = 0 THEN NaN
               ELSE IF Sign(a.n) * Sign(b.n) > 0 THEN Inf ELSE NInf)
    ELSE LET g1 == GCD(Abs(a.n), b.d)
             g2 == GCD(Abs(b.n), a.d)
         IN  Rat((a.n \div g1) * (b.n \div g2), (a.d \div g2) * (b.d \div g1))

FDiv(a, b) ==
    IF IsNaN(a) \/ IsNaN(b) THEN NaN
    ELSE IF ~IsFinite(b) THEN (IF IsFinite(a) THEN FromInt(0) ELSE NaN)
    ELSE IF b.n = 0
         THEN (IF a.n = 0 THEN NaN ELSE IF a.n > 0 THEN Inf ELSE NInf)
    ELSE IF ~IsFinite(a)
         THEN (IF Sign(a.n) * Sign(b.n) > 0 THEN Inf ELSE NInf)
    ELSE FMul(a, Rat(b.d, b.n))

FAdd(a, b) ==
    IF IsNaN(a) \/ IsNaN(b) THEN NaN
    ELSE IF ~IsFinite(a) THEN (IF ~IsFinite(b) /\ b # a THEN NaN ELSE a)
    ELSE IF ~IsFinite(b) THEN b
    ELSE LET g == GCD(a.d, b.d)
             l == (a.d \div g) * b.d
         IN  Rat(a.n * (l \div a.d) + b.n * (l \div b.d), l)

FSub(a, b) == FAdd(a, FNeg(b))

\* a < b; every comparison with NaN is false
FLt(a, b) ==
    IF IsNaN(a) \/ IsNaN(b) \/ a = b THEN FALSE
    ELSE IF a = NInf \/ b = Inf THEN TRUE
    ELSE IF a = Inf \/ b = NInf THEN FALSE
    ELSE LET g == GCD(a.d, b.d)
             l == (a.d \div g) * b.d
         IN  a.n * (l \div a.d) < b.n * (l \div b.d)

FGt(a, b) == FLt(b, a)
FGe(a, b) == ~IsNaN(a) /\ ~IsNaN(b) /\ ~FLt(a, b)

\* Python's max(a, b) and min(a, b): the first argument unless the second beats it
PyMax(a, b) == IF FGt(b, a) THEN b ELSE a
PyMin(a, b) == IF FLt(b, a) THEN b ELSE a

\* ------------------------------------------------------------------------
\* The input file as pd.read_csv returns it
\* ------------------------------------------------------------------------
\* A cell of a date or numeric column: a value that parses, or text that does not.
\* A cell of a string column: a label, or the missing value (an empty cell).
Num(v) == [ok |-> TRUE, v |-> v]
Text == [ok |-> FALSE, v |-> 0]
MissingCell == "<missing>"

\* Weeks are day numbers; NaT is what pd.to_datetime(errors="coerce") gives a bad date
NaT == -1

\* The cells the rows of the model's files are made of.  A row is a week, an
\* industry and one of two row shapes: a clean row, or a row with a missing region
\* and an unreadable WAPP_NEW whose churn exceeds its gains.
RawWeeks == {Num(0), Num(14), Text}
RawIndustries == {"Tech", MissingCell}
RawShapes ==
    { [REGION |-> "EMEA", WAPP_NEW |-> Num(2), WAPP_RESURRECT |-> Num(1),
       WAPP_CHURN |-> Num(0)],
      [REGION |-> MissingCell, WAPP_NEW |-> Text, WAPP_RESURRECT |-> Num(1),
       WAPP_CHURN |-> Num(4)] }

CsvRows ==
    { [WEEKLY_REVISED |-> w, WAPP_NEW |-> m.WAPP_NEW,
       WAPP_RESURRECT |-> m.WAPP_RESURRECT, WAPP_CHURN |-> m.WAPP_CHURN,
       INDUSTRY |-> i, REGION |-> m.REGION] :
      w \in RawWeeks, i \in RawIndustries, m \in RawShapes }

SeqsUpTo(S, k) == UNION { [1..j -> S] : j \in 1..k }

\* ------------------------------------------------------------------------
\* load_data
\* ------------------------------------------------------------------------
to_datetime(c) == IF c.ok THEN c.v ELSE NaT
\* pd.to_numeric(errors="coerce").fillna(0)
to_numeric_fillna(c) == IF c.ok THEN c.v ELSE 0
\* astype(str).replace("nan", "Unknown")
industry_label(c) ==
    LET s == IF c = MissingCell THEN "nan" ELSE c
    IN  IF s = "nan" THEN "Unknown" ELSE s
\* fillna("NA").replace("nan", "NA").astype(str)
region_label(c) ==
    LET s == IF c = MissingCell THEN "NA" ELSE c
    IN  IF s = "nan" THEN "NA" ELSE s

load_row(r) ==
    LET new == to_numeric_fillna(r.WAPP_NEW)
        res == to_numeric_fillna(r.WAPP_RESURRECT)
        churn == to_numeric_fillna(r.WAPP_CHURN)
    IN  [WEEKLY_REVISED |-> to_datetime(r.WEEKLY_REVISED),
         WAPP_NEW |-> new, WAPP_RESURRECT |-> res, WAPP_CHURN |-> churn,
         INDUSTRY |-> industry_label(r.INDUSTRY),
         REGION |-> region_label(r.REGION),
         NET_WAPP |-> new + res - churn]

\* No row is removed: the frame has one row per row of the file
load_data(file) == [k \in 1..Len(file) |-> load_row(file[k])]

\* ------------------------------------------------------------------------
\* Sidebar filters and the filtered frame
\* ------------------------------------------------------------------------
Column(rows, col) == [k \in 1..Len(rows) |-> rows[k][col]]
ValuesOf(rows, col) == { rows[k][col] : k \in 1..Len(rows) }

\* Series.min() / Series.max() of the week column skip NaT; NaT when nothing is left
min_date(rows) ==
    LET S == ValuesOf(rows, "WEEKLY_REVISED") \ {NaT}
    IN  IF S = {} THEN NaT ELSE CHOOSE x \in S : \A y \in S : x <= y
max_date(rows) ==
    LET S == ValuesOf(rows, "WEEKLY_REVISED") \ {NaT}
    IN  IF S = {} THEN NaT ELSE CHOOSE x \in S : \A y \in S : x >= y

industries(d) == ValuesOf(d, "INDUSTRY")
regions(d) == ValuesOf(d, "REGION")

\* The boolean mask of lines 64-67; a comparison with NaT is False
row_selected(r, dr, si, sr) ==
    /\ r.WEEKLY_REVISED # NaT
    /\ r.WEEKLY_REVISED >= dr[1]
    /\ r.WEEKLY_REVISED <= dr[2]
    /\ r.INDUSTRY \in si
    /\ r.REGION \in sr

filter_rows(d, dr, si, sr) ==
    LET keep(r) == row_selected(r, dr, si, sr) IN SelectSeq(d, keep)

\* Variant without the empty check
never_empty(rows) == FALSE

\* df_filtered.empty: st.warning(...) and st.stop()
is_empty(rows) == rows = <<>>

\* Variant that filters the cached frame in place
df_narrowed(d, filtered) == filtered

\* The script builds new frames and never assigns into df
df_after_run(d, filtered) == d

\* ------------------------------------------------------------------------
\* KPI totals and the industry breakdown
\* ------------------------------------------------------------------------
RECURSIVE SeqSum(_)
SeqSum(s) == IF s = <<>> THEN 0 ELSE s[1] + SeqSum(Tail(s))

\* Series.sum()
col_sum(rows, col) == SeqSum(Column(rows, col))

totals(rows) ==
    [total_net |-> col_sum(rows, "NET_WAPP"),
     total_new |-> col_sum(rows, "WAPP_NEW"),
     total_res |-> col_sum(rows, "WAPP_RESURRECT"),
     total_churn |-> col_sum(rows, "WAPP_CHURN")]

\* Python's order of the industry labels (sorted group keys of groupby)
LabelOrder == <<"Retail", "Tech", "Unknown">>

\* Variant that keeps the last row of a group instead of summing
agg_last(vals) == vals[Len(vals)]

\* The "sum" aggregation of one group's column
agg_sum(vals) == SeqSum(vals)

group_rows(rows, key) ==
    LET in_group(r) == r.INDUSTRY = key IN SelectSeq(rows, in_group)

group_keys(rows) ==
    LET present(l) == l \in ValuesOf(rows, "INDUSTRY") IN SelectSeq(LabelOrder, present)

\* df_filtered.groupby("INDUSTRY").agg(...).reset_index()
groupby_industry(rows) ==
    LET keys == group_keys(rows)
    IN  [k \in 1..Len(keys) |->
            LET g == group_rows(rows, keys[k])
            IN  [INDUSTRY |-> keys[k],
                 New |-> agg_sum(Column(g, "WAPP_NEW")),
                 Resurrect |-> agg_sum(Column(g, "WAPP_RESURRECT")),
                 Churn |-> agg_sum(Column(g, "WAPP_CHURN")),
                 Net |-> agg_sum(Column(g, "NET_WAPP"))]]

\* ------------------------------------------------------------------------
\* Industry prioritization engine
\* ------------------------------------------------------------------------
\* Series.replace(0, np.nan)
replace_zero_nan(i) == IF i = 0 THEN NaN ELSE FromInt(i)

\* max(1, (max week - min week).days / 7)
weeks_in_period(rows) ==
    LET lo == min_date(rows)
        hi == max_date(rows)
        w == IF lo = NaT \/ hi = NaT THEN NaN ELSE Rat(hi - lo, 7)
    IN  PyMax(FromInt(1), w)

ratios(a, weeks) ==
    [INDUSTRY |-> a.INDUSTRY, New |-> a.New, Resurrect |-> a.Resurrect,
     Churn |-> a.Churn, Net |-> a.Net,
     WER |-> FDiv(FromInt(a.New + a.Resurrect), replace_zero_nan(a.Churn)),
     Resurrection_Dependency |->
         FDiv(FromInt(a.Resurrect), replace_zero_nan(a.New + a.Resurrect)),
     New_to_Churn_Ratio |-> FDiv(FromInt(a.New), replace_zero_nan(a.Churn)),
     Churn_Velocity |-> FDiv(FromInt(a.Churn), weeks)]

\* .replace([np.inf, -np.inf], np.nan)
replace_inf_nan(x) == IF x = Inf \/ x = NInf THEN NaN ELSE x
\* Variant that leaves NaN in the frame
fillna_skipped(x) == x

\* .fillna(0)
fillna_zero(x) == IF IsNaN(x) THEN FromInt(0) ELSE x

sanitize(r) ==
    [r EXCEPT !.WER = fillna_zero(replace_inf_nan(@)),
              !.Resurrection_Dependency = fillna_zero(replace_inf_nan(@)),
              !.New_to_Churn_Ratio = fillna_zero(replace_inf_nan(@)),
              !.Churn_Velocity = fillna_zero(replace_inf_nan(@))]

RECURSIVE SortAsc(_)
SortAsc(s) ==
    IF s = <<>> THEN <<>>
    ELSE LET rest == SortAsc(Tail(s))
             below(x) == FLt(x, s[1])
             notbelow(x) == ~FLt(x, s[1])
         IN  SelectSeq(rest, below) \o <<s[1]>> \o SelectSeq(rest, notbelow)

\* Series.median(): NaN are skipped; the mean of the two middle values when even
median(vals) ==
    LET notnan(x) == ~IsNaN(x)
        s == SortAsc(SelectSeq(vals, notnan))
        n == Len(s)
    IN  IF n = 0 THEN NaN
        ELSE IF n % 2 = 1 THEN s[(n + 1) \div 2]
        ELSE FDiv(FAdd(s[n \div 2], s[n \div 2 + 1]), FromInt(2))

FixChurn == "Fix Churn"
AccelerateHiring == "Accelerate AE Hiring"
FragileGrowth == "Fragile Growth"
SDRExpansion == "SDR Expansion"
Monitor == "Monitor"

\* Variant that tests the Fragile Growth rule before the Fix Churn rule
classify_fragile_first(row, med) ==
    IF FGt(row.Resurrection_Dependency, Rat(7, 10)) THEN FragileGrowth
    ELSE IF FLt(row.WER, FromInt(1)) /\ FGt(row.Churn_Velocity, med) THEN FixChurn
    ELSE IF FGt(row.WER, Rat(12, 10)) /\ FLt(row.Resurrection_Dependency, Rat(4, 10))
         THEN AccelerateHiring
    ELSE IF FGt(row.New_to_Churn_Ratio, Rat(15, 10)) THEN SDRExpansion
    ELSE Monitor

classify(row, med) ==
    IF FLt(row.WER, FromInt(1)) /\ FGt(row.Churn_Velocity, med) THEN FixChurn
    ELSE IF FGt(row.WER, Rat(12, 10)) /\ FLt(row.Resurrection_Dependency, Rat(4, 10))
         THEN AccelerateHiring
    ELSE IF FGt(row.Resurrection_Dependency, Rat(7, 10)) THEN FragileGrowth
    ELSE IF FGt(row.New_to_Churn_Ratio, Rat(15, 10)) THEN SDRExpansion
    ELSE Monitor

opportunity_score(row) == FAbs(FMul(FromInt(row.Net), row.WER))

\* sort_values("Opportunity_Score", ascending=False); rows with equal scores keep
\* their order (a frame of a few rows is sorted by insertion)
RECURSIVE sort_by_score(_)
sort_by_score(s) ==
    IF s = <<>> THEN <<>>
    ELSE LET rest == sort_by_score(Tail(s))
             above(r) == FGt(r.Opportunity_Score, s[1].Opportunity_Score)
             notabove(r) == ~FGt(r.Opportunity_Score, s[1].Opportunity_Score)
         IN  SelectSeq(rest, above) \o <<s[1]>> \o SelectSeq(rest, notabove)

\* Lines 127-170: ratios, sanitization, classification against the batch median
\* of the sanitized frame, score, ranking
diagnose(summary, weeks) ==
    LET clean == [k \in 1..Len(summary) |-> sanitize(ratios(summary[k], weeks))]
        med == median(Column(clean, "Churn_Velocity"))
        actioned == [k \in 1..Len(clean) |->
                        [INDUSTRY |-> clean[k].INDUSTRY, New |-> clean[k].New,
                         Resurrect |-> clean[k].Resurrect, Churn |-> clean[k].Churn,
                         Net |-> clean[k].Net, WER |-> clean[k].WER,
                         Resurrection_Dependency |-> clean[k].Resurrection_Dependency,
                         New_to_Churn_Ratio |-> clean[k].New_to_Churn_Ratio,
                         Churn_Velocity |-> clean[k].Churn_Velocity,
                         Strategic_Action |-> classify(clean[k], med),
                         Opportunity_Score |-> opportunity_score(clean[k])]]
    IN  sort_by_score(actioned)

\* ------------------------------------------------------------------------
\* Revenue modelling
\* ------------------------------------------------------------------------
Roles == {"Account Executives", "SDRs", "CSMs"}

BASE_AE_QUOTA == 750000

ROLE_MULTIPLIER ==
    [r \in Roles |->
        CASE r = "Account Executives" -> FromInt(1)
          [] r = "SDRs" -> Rat(25, 100)
          [] r = "CSMs" -> Rat(4, 10)]

\* Variant without the floor of 0.1
growth_scaler_unfloored(total_net, baseline) ==
    FDiv(FromInt(total_net), PyMax(FromInt(1), FromInt(baseline)))

\* max(0.1, total_net / max(1, df["NET_WAPP"].sum()))
growth_scaler(total_net, baseline) ==
    PyMax(Rat(1, 10), FDiv(FromInt(total_net), PyMax(FromInt(1), FromInt(baseline))))

\* min(1.0, ramp_months / 6)
ramp_factor(ramp_months) == PyMin(FromInt(1), Rat(ramp_months, 6))

\* Variant without the clamp at 0
arr_gap_unclamped(required_arr, existing_arr, pipeline_arr) ==
    FSub(required_arr, FAdd(existing_arr, pipeline_arr))

\* max(0, required_arr - (existing_arr + pipeline_arr))
arr_gap(required_arr, existing_arr, pipeline_arr) ==
    PyMax(FromInt(0), FSub(required_arr, FAdd(existing_arr, pipeline_arr)))

\* Lines 231-244; sc holds the values of the sidebar's hiring controls
simulate(sc, total_net, baseline) ==
    LET arr_quota == FMul(FromInt(BASE_AE_QUOTA), ROLE_MULTIPLIER[sc.role])
        gs == growth_scaler(total_net, baseline)
        scaled_quota == FMul(arr_quota, gs)
        rf == ramp_factor(sc.ramp_months)
        eff == FMul(FMul(scaled_quota, Rat(sc.quota_attainment, 100)), rf)
        existing == FMul(FromInt(sc.current_headcount), eff)
        expected_new_hires == sc.pipeline_count \div 2
        pipeline == FMul(FromInt(expected_new_hires), eff)
        required == FMul(FromInt(sc.quarter_goal), eff)
    IN  [growth_scaler |-> gs, ramp_factor |-> rf,
         effective_arr_per_rep |-> eff, existing_arr |-> existing,
         expected_new_hires |-> expected_new_hires, pipeline_arr |-> pipeline,
         required_arr |-> required,
         arr_gap |-> arr_gap(required, existing, pipeline)]

\* hires_per_month * effective_arr_per_rep
projected(hires_per_month, eff) == FMul(FromInt(hires_per_month), eff)

\* ------------------------------------------------------------------------
\* Hiring funnel: int(base * rate) in IEEE-754 binary64
\* ------------------------------------------------------------------------
\* Natural numbers wider than 31 bits are sequences of 16-bit limbs, least
\* significant first.
Limb == 2 ^ 16

RECURSIVE big_times(_, _, _)
big_times(m, k, carry) ==
    IF m = <<>> THEN (IF carry = 0 THEN <<>> ELSE <<carry>>)
    ELSE LET t == k * m[1] + carry
         IN  <<t % Limb>> \o big_times(Tail(m), k, t \div Limb)

\* Quotient and remainder of a limb sequence by a small divisor, from the top limb
RECURSIVE big_divmod(_, _, _)
big_divmod(m, den, rem) ==
    IF m = <<>> THEN [q |-> <<>>, r |-> rem]
    ELSE LET cur == rem * Limb + m[Len(m)]
             low == big_divmod(SubSeq(m, 1, Len(m) - 1), den, cur % den)
         IN  [q |-> low.q \o <<cur \div den>>, r |-> low.r]

RECURSIVE big_inc(_)
big_inc(m) ==
    IF m = <<>> THEN <<1>>
    ELSE IF m[1] + 1 < Limb THEN <<m[1] + 1>> \o Tail(m)
    ELSE <<0>> \o big_inc(Tail(m))

bit(m, k) ==
    IF k \div 16 + 1 > Len(m) THEN 0 ELSE (m[k \div 16 + 1] \div (2 ^ (k % 16))) % 2

\* 2^53 as limbs
TwoTo53 == <<0, 0, 0, 32>>

\* The binary64 nearest to the decimal literal num/den (1/2 <= num/den <= 1), as the
\* integer M with value M * 2^-53: round(num * 2^53 / den), ties to even
double_of(num, den) ==
    LET dm == big_divmod(big_times(TwoTo53, num, 0), den, 0)
        up == 2 * dm.r > den \/ (2 * dm.r = den /\ bit(dm.q, 0) = 1)
    IN  IF up THEN big_inc(dm.q) ELSE dm.q

RECURSIVE big_value(_)
big_value(m) == IF m = <<>> THEN 0 ELSE m[1] + Limb * big_value(Tail(m))

RECURSIVE int_bits(_)
int_bits(v) == IF v = 0 THEN 0 ELSE 1 + int_bits(v \div 2)

\* Number of significant bits (the top limb of a product is never 0)
bit_length(m) == IF m = <<>> THEN 0 ELSE 16 * (Len(m) - 1) + int_bits(m[Len(m)])

\* floor(m / 2^53): the limbs above bit 48, less five more bits
over_2_53(m) == big_value(SubSeq(m, 4, Len(m))) \div 32

\* int(base * rate): the exact product base * M is rounded to 53 significant bits
\* (nearest, ties to even) and the result truncated to its integer part.  Rounding
\* up reaches the integer part only when every kept fraction bit is 1.
int_times(base, M) ==
    LET P == big_times(M, base, 0)
        s == bit_length(P) - 53
        q0 == over_2_53(P)
        sticky == \E k \in 0..(s - 2) : bit(P, k) = 1
        up == s > 0 /\ bit(P, s - 1) = 1 /\ (sticky \/ bit(P, s) = 1)
        ripple == \A k \in s..52 : bit(P, k) = 1
    IN  IF up /\ ripple THEN q0 + 1 ELSE q0

stages == <<"Sourcing", "Phone Screen", "Hiring Manager", "Final Round", "Offer",
            "Accepted">>

\* drop_rates = [1, 0.7, 0.8, 0.75, 0.8, 0.85] as decimal literals num/den
drop_rates == << <<1, 1>>, <<7, 10>>, <<8, 10>>, <<75, 100>>, <<8, 10>>, <<85, 100>> >>

\* max(pipeline_count * 3, 1)
funnel_base(pipeline_count) == IF pipeline_count * 3 > 1 THEN pipeline_count * 3 ELSE 1

\* One pass of the loop body: base = int(base * rate)
funnel_step(base, rate) == int_times(base, double_of(rate[1], rate[2]))

RECURSIVE funnel_loop(_, _)
funnel_loop(base, rates) ==
    IF rates = <<>> THEN <<>>
    ELSE LET nxt == funnel_step(base, rates[1])
         IN  <<nxt>> \o funnel_loop(nxt, Tail(rates))

funnel_counts(pipeline_count) == funnel_loop(funnel_base(pipeline_count), drop_rates)

\* ------------------------------------------------------------------------
\* Ramp model
\* ------------------------------------------------------------------------
\* Variant with the end point left out (endpoint=False)
linspace_open(start, stop, num, i) ==
    FAdd(FromInt(start), FMul(FromInt(i), Rat(stop - start, num)))

\* np.linspace(start, stop, num)[i], i = 0..num-1: start + i * (stop - start) / (num - 1)
linspace(start, stop, num, i) ==
    IF num = 1 THEN FromInt(start)
    ELSE FAdd(FromInt(start), FMul(FromInt(i), Rat(stop - start, num - 1)))

ramp_curve(ramp_months, quota_attainment) ==
    [m \in 1..ramp_months |->
        LET target == linspace(0, 100, ramp_months, m - 1)
        IN  [Month |-> m, Target |-> target,
             Actual |-> FMul(target, Rat(quota_attainment, 100))]]

\* ------------------------------------------------------------------------
\* The script, top to bottom
\* ------------------------------------------------------------------------
\* Widget defaults and limits of the hiring controls (lines 212-221, 309)
DefaultGoal == 20
DefaultHeadcount == 15
DefaultPipeline == 8
DefaultAttainment == 70
DefaultRamp == 6
DefaultHires == 5
MinAttainment == 50
MaxAttainment == 100
MinRamp == 3
MaxRamp == 9
MinHires == 1
MaxHires == 15

DefaultScenario ==
    [role |-> "Account Executives", quarter_goal |-> DefaultGoal,
     current_headcount |-> DefaultHeadcount, pipeline_count |-> DefaultPipeline,
     quota_attainment |-> DefaultAttainment, ramp_months |-> DefaultRamp,
     hires_per_month |-> DefaultHires]

NoDataWarning == "No data for selected filters."
Sections == {"summary", "breakdown", "engine", "revenue", "funnel", "ramp", "simulator"}

\* One run of the script over the loaded frame d with the widget values dr (date
\* range), si, sr (selected industries and regions) and sc (hiring controls).  A
\* value the run never computes is the empty sequence.
Script(d, dr, si, sr, sc) ==
    LET f == filter_rows(d, dr, si, sr)
    IN  IF is_empty(f)
        THEN [status |-> "stopped", warning |-> NoDataWarning, ran |-> {},
              df_filtered |-> f, kpi |-> <<>>, industry_summary |-> <<>>,
              weeks |-> <<>>, industry_diag |-> <<>>, baseline |-> <<>>,
              sim |-> <<>>, counts |-> <<>>, ramp_df |-> <<>>,
              projected_arr |-> <<>>]
        ELSE LET k == totals(f)
                 summary == groupby_industry(f)
                 w == weeks_in_period(f)
                 b == col_sum(d, "NET_WAPP")
                 r == simulate(sc, k.total_net, b)
             IN  [status |-> "complete", warning |-> "", ran |-> Sections,
                  df_filtered |-> f, kpi |-> <<k>>, industry_summary |-> summary,
                  weeks |-> <<w>>, industry_diag |-> diagnose(summary, w),
                  baseline |-> <<b>>, sim |-> <<r>>,
                  counts |-> funnel_counts(sc.pipeline_count),
                  ramp_df |-> ramp_curve(sc.ramp_months, sc.quota_attainment),
                  projected_arr |->
                      <<projected(sc.hires_per_month, r.effective_arr_per_rep)>>]

\* ------------------------------------------------------------------------
\* State
\* ------------------------------------------------------------------------
VARIABLES
    csv,                  \* wapp_data.csv as read
    df,                   \* the cached frame of load_data()
    date_range, selected_industries, selected_regions,   \* filter widgets
    scenario,             \* hiring-control widgets
    status,               \* how far the last run got
    warning, ran,         \* the warning shown; the sections the run executed
    df_filtered, kpi, industry_summary, weeks, industry_diag,
    baseline, sim, counts, ramp_df, projected_arr

inputs == <<csv, df, date_range, selected_industries, selected_regions, scenario>>
outputs == <<status, warning, ran, df_filtered, kpi, industry_summary, weeks,
             industry_diag, baseline, sim, counts, ramp_df, projected_arr>>
vars == <<inputs, outputs>>

\* The page after a run: every output variable takes the run's value
Shows(r) ==
    /\ status = r.status /\ warning = r.warning /\ ran = r.ran
    /\ df_filtered = r.df_filtered /\ kpi = r.kpi
    /\ industry_summary = r.industry_summary /\ weeks = r.weeks
    /\ industry_diag = r.industry_diag /\ baseline = r.baseline
    /\ sim = r.sim /\ counts = r.counts /\ ramp_df = r.ramp_df
    /\ projected_arr = r.projected_arr

\* A rerun with the widget values dr, si, sr, sc
Rerun(dr, si, sr, sc) ==
    \E r \in {Script(df, dr, si, sr, sc)} :
        /\ date_range' = dr /\ selected_industries' = si
        /\ selected_regions' = sr /\ scenario' = sc
        /\ csv' = csv
        /\ df' = df_after_run(df, r.df_filtered)
        /\ status' = r.status /\ warning' = r.warning /\ ran' = r.ran
        /\ df_filtered' = r.df_filtered /\ kpi' = r.kpi
        /\ industry_summary' = r.industry_summary /\ weeks' = r.weeks
        /\ industry_diag' = r.industry_diag /\ baseline' = r.baseline
        /\ sim' = r.sim /\ counts' = r.counts /\ ramp_df' = r.ramp_df
        /\ projected_arr' = r.projected_arr

\* ------------------------------------------------------------------------
\* Spec: a session of the app
\* ------------------------------------------------------------------------
\* Dates the date picker is set to, and the hiring-control values tried
DateChoices == {0, 14}
ScenarioChoices ==
    {DefaultScenario,
     [DefaultScenario EXCEPT !.role = "SDRs", !.current_headcount = 30,
                             !.ramp_months = MinRamp]}

\* Files the app starts on: at least one row with a readable week
CsvFiles == { f \in SeqsUpTo(CsvRows, MaxRows) : \E k \in 1..Len(f) : f[k].WEEKLY_REVISED.ok }

\* First run: the file is loaded and every widget has its default
Init ==
    /\ csv \in CsvFiles
    /\ df = load_data(csv)
    /\ date_range = <<min_date(df), max_date(df)>>
    /\ selected_industries = industries(df)
    /\ selected_regions = regions(df)
    /\ scenario = DefaultScenario
    /\ \E r \in {Script(df, date_range, selected_industries, selected_regions, scenario)} :
          Shows(r)

ChangeDateRange ==
    \E lo \in DateChoices, hi \in DateChoices :
        /\ lo <= hi
        /\ <<lo, hi>> # date_range
        /\ Rerun(<<lo, hi>>, selected_industries, selected_regions, scenario)

ChangeIndustries ==
    \E si \in SUBSET industries(df) :
        /\ si # selected_industries
        /\ Rerun(date_range, si, selected_regions, scenario)

ChangeRegions ==
    \E sr \in SUBSET regions(df) :
        /\ sr # selected_regions
        /\ Rerun(date_range, selected_industries, sr, scenario)

ChangeScenario ==
    \E sc \in ScenarioChoices :
        /\ sc # scenario
        /\ Rerun(date_range, selected_industries, selected_regions, sc)

\* Any other rerun (a refresh, a widget outside the model): same inputs
Refresh == Rerun(date_range, selected_industries, selected_regions, scenario)

Next ==
    \/ ChangeDateRange
    \/ ChangeIndustries
    \/ ChangeRegions
    \/ ChangeScenario
    \/ Refresh

Spec == Init /\ [][Next]_vars

\* ------------------------------------------------------------------------
\* Specifications of the pure stages on wider inputs
\* ------------------------------------------------------------------------
NoSession ==
    /\ csv = <<>> /\ df = <<>> /\ date_range = <<NaT, NaT>>
    /\ selected_industries = {} /\ selected_regions = {}
    /\ df_filtered = <<>> /\ warning = "" /\ ran = {}

\* --- SpecDiag: lines 127-170 on a batch of industry aggregates ---
DiagNew == {0, 1, 3}
DiagResurrect == {0, 1, 3}
DiagChurn == {0, 1, 2}
DiagDays == {0, 10, 14}

Aggregate(label, new, res, churn) ==
    [INDUSTRY |-> label, New |-> new, Resurrect |-> res, Churn |-> churn,
     Net |-> new + res - churn]

Batches ==
    UNION { { [k \in 1..j |-> Aggregate(LabelOrder[k], t[k][1], t[k][2], t[k][3])] :
              t \in [1..j -> DiagNew \X DiagResurrect \X DiagChurn] } :
            j \in 1..MaxBatch }

DiagInit ==
    /\ NoSession
    /\ scenario = DefaultScenario
    /\ status = "aggregated"
    /\ industry_summary \in Batches
    /\ weeks \in { <<PyMax(FromInt(1), Rat(d, 7))>> : d \in DiagDays }
    /\ kpi = <<>> /\ industry_diag = <<>> /\ baseline = <<>> /\ sim = <<>>
    /\ counts = <<>> /\ ramp_df = <<>> /\ projected_arr = <<>>

DiagnoseStep ==
    /\ status = "aggregated"
    /\ status' = "diagnosed"
    /\ industry_diag' = diagnose(industry_summary, weeks[1])
    /\ UNCHANGED <<inputs, warning, ran, df_filtered, kpi, industry_summary, weeks,
                   baseline, sim, counts, ramp_df, projected_arr>>

SpecDiag == DiagInit /\ [][DiagnoseStep]_vars

\* --- SpecSim: lines 231-244 and 309-310 on scenario inputs and demand totals ---
SimScenarios ==
    { [role |-> r, quarter_goal |-> g, current_headcount |-> h, pipeline_count |-> p,
       quota_attainment |-> a, ramp_months |-> m, hires_per_month |-> n] :
      r \in Roles, g \in 1..MaxGoal, h \in 0..MaxHeadcount, p \in 0..MaxPipelineCount,
      a \in {MinAttainment, DefaultAttainment, MaxAttainment},
      m \in {MinRamp, DefaultRamp, MaxRamp}, n \in {MinHires, MaxHires} }

\* KPI totals with the net total tn
TotalsOf(tn) ==
    [total_net |-> tn, total_new |-> IF tn > 0 THEN tn ELSE 0, total_res |-> 0,
     total_churn |-> IF tn < 0 THEN -tn ELSE 0]

SimInit ==
    /\ NoSession
    /\ scenario \in SimScenarios
    /\ status = "modelling"
    /\ kpi \in { <<TotalsOf(tn)>> : tn \in -MaxDemand..MaxDemand }
    /\ baseline \in { <<b>> : b \in -MaxDemand..MaxDemand }
    /\ industry_summary = <<>> /\ weeks = <<>> /\ industry_diag = <<>>
    /\ sim = <<>> /\ counts = <<>> /\ ramp_df = <<>> /\ projected_arr = <<>>

SimulateStep ==
    /\ status = "modelling"
    /\ status' = "simulated"
    /\ \E r \in {simulate(scenario, kpi[1].total_net, baseline[1])} :
          /\ sim' = <<r>>
          /\ projected_arr' = <<projected(scenario.hires_per_month,
                                          r.effective_arr_per_rep)>>
    /\ UNCHANGED <<inputs, warning, ran, df_filtered, kpi, industry_summary, weeks,
                   industry_diag, baseline, counts, ramp_df>>

SpecSim == SimInit /\ [][SimulateStep]_vars

\* --- SpecFunnel: lines 261-271 on every pipeline_count up to the bound ---
FunnelInit ==
    /\ NoSession
    /\ scenario \in { [DefaultScenario EXCEPT !.pipeline_count = p] :
                      p \in 0..MaxFunnelPipeline }
    /\ status = "funnel"
    /\ kpi = <<>> /\ industry_summary = <<>> /\ weeks = <<>> /\ industry_diag = <<>>
    /\ baseline = <<>> /\ sim = <<>> /\ counts = <<>> /\ ramp_df = <<>>
    /\ projected_arr = <<>>

FunnelStep ==
    /\ status = "funnel"
    /\ status' = "funnelled"
    /\ counts' = funnel_counts(scenario.pipeline_count)
    /\ UNCHANGED <<inputs, warning, ran, df_filtered, kpi, industry_summary, weeks,
                   industry_diag, baseline, sim, ramp_df, projected_arr>>

SpecFunnel == FunnelInit /\ [][FunnelStep]_vars

\* --- SpecRamp: lines 286-294 on every slider position ---
RampInit ==
    /\ NoSession
    /\ scenario \in { [DefaultScenario EXCEPT !.ramp_months = m, !.quota_attainment = a] :
                      m \in MinRamp..MaxRamp, a \in MinAttainment..MaxAttainment }
    /\ status = "ramp"
    /\ kpi = <<>> /\ industry_summary = <<>> /\ weeks = <<>> /\ industry_diag = <<>>
    /\ baseline = <<>> /\ sim = <<>> /\ counts = <<>> /\ ramp_df = <<>>
    /\ projected_arr = <<>>

RampStep ==
    /\ status = "ramp"
    /\ status' = "ramped"
    /\ ramp_df' = ramp_curve(scenario.ramp_months, scenario.quota_attainment)
    /\ UNCHANGED <<inputs, warning, ran, df_filtered, kpi, industry_summary, weeks,
                   industry_diag, baseline, sim, counts, projected_arr>>

SpecRamp == RampInit /\ [][RampStep]_vars

\* ------------------------------------------------------------------------
\* Properties
\* ------------------------------------------------------------------------
Zero == FromInt(0)

\* C1 (SpecSim): the revenue gap is required_arr - (existing_arr + pipeline_arr)
\* when that is positive and 0 otherwise: it is never negative, and it is exactly 0
\* whenever capacity covers the requirement, in particular whenever
\* current_headcount + floor(pipeline_count / 2) >= quarter_goal.
C1_GapClamp ==
    status = "simulated" =>
        LET r == sim[1]
            capacity == FAdd(r.existing_arr, r.pipeline_arr)
        IN  /\ FGe(r.arr_gap, Zero)
            /\ FGe(capacity, r.required_arr) => r.arr_gap = Zero
            /\ FLt(capacity, r.required_arr) =>
                   r.arr_gap = FSub(r.required_arr, capacity)
            /\ scenario.current_headcount + scenario.pipeline_count \div 2
                   >= scenario.quarter_goal => r.arr_gap = Zero

\* A strict surplus was simulated and reported as gap 0
C1_Witness ==
    /\ status = "simulated"
    /\ FGt(FAdd(sim[1].existing_arr, sim[1].pipeline_arr), sim[1].required_arr)
    /\ sim[1].arr_gap = Zero

\* C2 (SpecDiag): every industry's strategic action is the label of the first rule
\* it matches, in the order Fix Churn (wer < 1 and churn velocity above the median of
\* the whole sanitized batch), Accelerate Hiring (wer > 1.2 and resurrection
\* dependency < 0.4), Fragile Growth (resurrection dependency > 0.7), SDR Expansion
\* (new-to-churn ratio > 1.5), Monitor; an industry matching the first rule is Fix
\* Churn whatever its other ratios are.
C2_Precedence ==
    status = "diagnosed" =>
        LET med == median(Column(industry_diag, "Churn_Velocity"))
        IN  \A k \in 1..Len(industry_diag) :
                LET row == industry_diag[k]
                    r1 == FLt(row.WER, FromInt(1)) /\ FGt(row.Churn_Velocity, med)
                    r2 == FGt(row.WER, Rat(6, 5))
                          /\ FLt(row.Resurrection_Dependency, Rat(2, 5))
                    r3 == FGt(row.Resurrection_Dependency, Rat(7, 10))
                    r4 == FGt(row.New_to_Churn_Ratio, Rat(3, 2))
                IN  /\ row.Strategic_Action = FixChurn <=> r1
                    /\ row.Strategic_Action = AccelerateHiring <=> ~r1 /\ r2
                    /\ row.Strategic_Action = FragileGrowth <=> ~r1 /\ ~r2 /\ r3
                    /\ row.Strategic_Action = SDRExpansion
                           <=> ~r1 /\ ~r2 /\ ~r3 /\ r4
                    /\ row.Strategic_Action = Monitor
                           <=> ~r1 /\ ~r2 /\ ~r3 /\ ~r4

\* An industry matching both the Fix Churn and the Fragile Growth rule was classified
C2_Witness ==
    /\ status = "diagnosed"
    /\ \E k \in 1..Len(industry_diag) :
          /\ FLt(industry_diag[k].WER, FromInt(1))
          /\ FGt(industry_diag[k].Resurrection_Dependency, Rat(7, 10))
          /\ industry_diag[k].Strategic_Action = FixChurn

\* C3 (SpecDiag): every derived field of every diagnostic row is finite; with
\* churn_sum = 0 the row has wer = 0 and new_to_churn_ratio = 0, with
\* new_sum + resurrect_sum = 0 it has resurrection_dependency = 0; every aggregate
\* keeps its row.
C3_FiniteFields ==
    status = "diagnosed" =>
        /\ Len(industry_diag) = Len(industry_summary)
        /\ ValuesOf(industry_diag, "INDUSTRY") = ValuesOf(industry_summary, "INDUSTRY")
        /\ \A k \in 1..Len(industry_diag) :
              LET row == industry_diag[k]
              IN  /\ IsFinite(row.WER)
                  /\ IsFinite(row.Resurrection_Dependency)
                  /\ IsFinite(row.New_to_Churn_Ratio)
                  /\ IsFinite(row.Churn_Velocity)
                  /\ IsFinite(row.Opportunity_Score)
                  /\ row.Churn = 0 => row.WER = Zero /\ row.New_to_Churn_Ratio = Zero
                  /\ row.New + row.Resurrect = 0 => row.Resurrection_Dependency = Zero

\* A batch with a churn-free industry that has gains, and one without any gains
C3_Witness ==
    /\ status = "diagnosed"
    /\ \E k \in 1..Len(industry_diag) :
          /\ industry_diag[k].Churn = 0
          /\ industry_diag[k].New > 0
          /\ industry_diag[k].WER = Zero
    /\ \E k \in 1..Len(industry_diag) :
          /\ industry_diag[k].New + industry_diag[k].Resurrect = 0
          /\ industry_diag[k].Resurrection_Dependency = Zero

RowOrders(n) == { p \in [1..n -> 1..n] : \A i, j \in 1..n : p[i] = p[j] => i = j }

\* C4 (Spec): grouping by industry conserves the totals of new, resurrect, churn and
\* net, yields exactly one aggregate per industry present in the filtered rows, and
\* gives the same aggregates for every order of the rows.
C4_Conservation ==
    status = "complete" =>
        /\ SeqSum(Column(industry_summary, "Net")) = SeqSum(Column(df_filtered, "NET_WAPP"))
        /\ SeqSum(Column(industry_summary, "New")) = SeqSum(Column(df_filtered, "WAPP_NEW"))
        /\ SeqSum(Column(industry_summary, "Resurrect"))
               = SeqSum(Column(df_filtered, "WAPP_RESURRECT"))
        /\ SeqSum(Column(industry_summary, "Churn"))
               = SeqSum(Column(df_filtered, "WAPP_CHURN"))
        /\ ValuesOf(industry_summary, "INDUSTRY") = ValuesOf(df_filtered, "INDUSTRY")
        /\ Len(industry_summary) = Cardinality(ValuesOf(df_filtered, "INDUSTRY"))
        /\ \A p \in RowOrders(Len(df_filtered)) :
              groupby_industry([k \in 1..Len(df_filtered) |-> df_filtered[p[k]]])
                  = industry_summary

\* Two different rows of one industry were summed into one aggregate
C4_Witness ==
    /\ status = "complete"
    /\ Len(df_filtered) = 2
    /\ df_filtered[1].INDUSTRY = df_filtered[2].INDUSTRY
    /\ df_filtered[1].NET_WAPP # df_filtered[2].NET_WAPP
    /\ Len(industry_summary) = 1

\* C5 (SpecFunnel): the funnel has six stage counts, the first is
\* max(3 * pipeline_count, 1), every later one is the floor of the previous count
\* times its rate from [1, 0.7, 0.8, 0.75, 0.8, 0.85], and so no count exceeds the
\* one before it or is negative.
C5_FunnelFloor ==
    status = "funnelled" =>
        /\ Len(counts) = Len(stages)
        /\ counts[1] = (IF 3 * scenario.pipeline_count > 1
                        THEN 3 * scenario.pipeline_count ELSE 1)
        /\ \A i \in 2..Len(counts) :
              /\ counts[i] = (counts[i - 1] * drop_rates[i][1]) \div drop_rates[i][2]
              /\ counts[i] <= counts[i - 1]
              /\ counts[i] >= 0

\* C6 (SpecRamp), as claimed: target(m) = 100 * m / ramp_months and
\* actual(m) = target(m) * attainment / 100 for every month m of the ramp.
C6_TargetAsClaimed ==
    status = "ramped" =>
        \A m \in 1..scenario.ramp_months :
            /\ ramp_df[m].Target = Rat(100 * m, scenario.ramp_months)
            /\ ramp_df[m].Actual
                   = FMul(ramp_df[m].Target, Rat(scenario.quota_attainment, 100))

\* C6 (SpecRamp), amended: the curve has one point per month 1..ramp_months, evenly
\* spaced from 0 to 100 inclusive: target(m) = 100 * (m - 1) / (ramp_months - 1),
\* and actual(m) = target(m) * attainment / 100.
C6_TargetEvenlySpaced ==
    status = "ramped" =>
        /\ Len(ramp_df) = scenario.ramp_months
        /\ \A m \in 1..scenario.ramp_months :
              /\ ramp_df[m].Month = m
              /\ ramp_df[m].Target = Rat(100 * (m - 1), scenario.ramp_months - 1)
              /\ ramp_df[m].Actual
                     = Rat(100 * (m - 1) * scenario.quota_attainment,
                           100 * (scenario.ramp_months - 1))
        /\ ramp_df[1].Target = Zero
        /\ ramp_df[scenario.ramp_months].Target = FromInt(100)

\* A seven-month ramp at 70 % attainment was drawn
C6_Witness ==
    /\ status = "ramped"
    /\ scenario.ramp_months = 7
    /\ scenario.quota_attainment = 70
    /\ ramp_df[4].Target = FromInt(50)
    /\ ramp_df[4].Actual = FromInt(35)

\* C7 (Spec): a run stops with the "no data" warning exactly when the filters select
\* no row; such a run executes no later section and leaves no aggregate, diagnostic
\* or simulation result; a run that diagnoses has a non-empty batch; every run ends
\* stopped or complete.
C7_EmptyStops ==
    /\ status \in {"stopped", "complete"}
    /\ df_filtered
           = filter_rows(df, date_range, selected_industries, selected_regions)
    /\ status = "stopped" <=> df_filtered = <<>>
    /\ df_filtered = <<>> =>
           /\ warning = NoDataWarning
           /\ ran = {}
           /\ kpi = <<>> /\ industry_summary = <<>> /\ weeks = <<>>
           /\ industry_diag = <<>> /\ sim = <<>> /\ counts = <<>>
           /\ ramp_df = <<>> /\ projected_arr = <<>>
    /\ "engine" \in ran =>
           /\ industry_summary # <<>>
           /\ Len(industry_diag) = Len(industry_summary)
           /\ IsFinite(median(Column(industry_diag, "Churn_Velocity")))

\* The date range alone selected no row and the run stopped
C7_Witness ==
    /\ status = "stopped"
    /\ warning = NoDataWarning
    /\ selected_industries = industries(df)
    /\ selected_regions = regions(df)

\* The rows of a frame whose week was readable
readable_rows(d) ==
    LET readable(r) == r.WEEKLY_REVISED # NaT IN SelectSeq(d, readable)

\* C9 (Spec): the loaded frame has no row with a null week, so the unfiltered NET
\* total behind the growth scaler counts only rows with a readable week.
C9_NullWeeksDropped ==
    /\ \A k \in 1..Len(df) : df[k].WEEKLY_REVISED # NaT
    /\ status = "complete" =>
           baseline[1] = SeqSum(Column(readable_rows(df), "NET_WAPP"))

\* C10 (Spec): after any sequence of widget changes the page shows exactly what one
\* run of the script over the frame loaded from the file gives for the current
\* widget values, and the cached frame is still the loaded one.
C10_CurrentInputsOnly ==
    /\ df = load_data(csv)
    /\ \E r \in {Script(load_data(csv), date_range, selected_industries,
                        selected_regions, scenario)} : Shows(r)

\* Every filter widget and the hiring controls were changed and a run completed
C10_Witness ==
    /\ status = "complete"
    /\ date_range # <<min_date(df), max_date(df)>>
    /\ selected_industries # industries(df)
    /\ selected_regions # regions(df)
    /\ scenario # DefaultScenario
    /\ Len(df_filtered) < Len(df)

\* C8 (SpecSim): growth_scaler is a finite number >= 0.1 and every monetary output
\* is non-negative, also for a negative filtered net total and a zero or negative
\* unfiltered total.
C8_NonNegative ==
    status = "simulated" =>
        LET r == sim[1]
        IN  /\ IsFinite(r.growth_scaler)
            /\ FGe(r.growth_scaler, Rat(1, 10))
            /\ FGe(r.effective_arr_per_rep, Zero)
            /\ FGe(r.existing_arr, Zero)
            /\ FGe(r.pipeline_arr, Zero)
            /\ FGe(r.required_arr, Zero)
            /\ FGe(r.arr_gap, Zero)
            /\ FGe(projected_arr[1], Zero)

\* A negative filtered total over a non-positive unfiltered total was simulated
C8_Witness ==
    /\ status = "simulated"
    /\ kpi[1].total_net < 0
    /\ baseline[1] <= 0
    /\ sim[1].growth_scaler = Rat(1, 10)
    /\ FGt(sim[1].required_arr, Zero)

====
